---- MODULE Spec2Model ----
(***************************************************************************)
(* A model of instapi (src/src/auth.rs, src/src/user.rs, src/src/lib.rs)   *)
(* and of the instafetcher example (src/examples/instafetcher/*.rs):       *)
(* the token lifecycle, the paginated media collector and the download     *)
(* dispatcher.                                                             *)
(*                                                                         *)
(* Option<T> is a sequence of length <= 1: <<>> is None, <<x>> is Some(x). *)
(* Instants and durations are integers counted in ticks of                 *)
(* 1/TicksPerSecond second (chrono keeps nanoseconds).                     *)
(***************************************************************************)
EXTENDS Integers, Sequences, FiniteSets, TLC

\* ------------------------------------------------------------------ bounds
TicksPerSecond == 2      \* clock resolution of the model
MaxAdvances == 1         \* how often the clock is advanced between calls
MaxCalls == 2            \* token operations called in one run
MaxCpus == 2             \* largest num_cpus::get()
MaxPageLen == 2          \* records on one page
MaxFetches == 2          \* page requests of one collect_media call
MaxDefects == 1          \* pages of one traversal that hold a defective record
MaxItems == 2            \* items of the listing download_all works on
MaxChildren == 1         \* items of one album download_all expands
MaxMishaps == 1          \* downloads of one run that do not go smoothly
MaxLines == 3            \* lines the standard input holds before it ends

\* --------------------------------------------------------------- variables
VARIABLES
    now,                \* Utc::now()
    advances,           \* clock advances so far
    short_lived_token,  \* Option<ShortLivedToken> held by the caller
    long_lived_token,   \* Option<LongLivedToken> held by the caller
    token_file,         \* Option<JSON>: the token file of the instafetcher example
    calls,              \* token operations called so far
    last                \* the last token operation: arguments and result

tokenVars == <<now, advances, short_lived_token, long_lived_token, token_file,
               calls, last>>

\* Profile::collect_media and its thread pool
VARIABLES
    num_cpus,           \* num_cpus::get(): the size of every pool
    parent,             \* Option<Media>: the argument of Profile::album
    pc,                 \* where the thread that called collect_media stands
    endpoint,           \* the id in the first URL: empty for /media, an album's id
    url,                \* Option<Url>: the cursor of the while loop
    fetched,            \* the URLs requested so far, in order
    page_reply,         \* Option: the reply to the last page request
    pages,              \* the `data` of every page handed to the pool, in order
    queue,              \* the pool's job channel: indexes into pages
    workers,            \* the pool's threads and the job each one runs
    media,              \* the Vec behind Arc<Mutex<..>>
    owner,              \* the worker holding the mutex, 0 when it is free
    poisoned,           \* the mutex was held by a thread that panicked
    ret                 \* what collect_media returned

collectVars == <<num_cpus, parent, pc, endpoint, url, fetched, page_reply, pages, queue, workers, media,
                 owner, poisoned, ret>>

\* download_all of the instafetcher example and its thread pool
VARIABLES
    dpc,                \* where the thread that called download_all stands
    include_albums,     \* the argument of download_all
    listing,            \* media.unwrap(): the top-level items
    idx,                \* the item the for loop of download_all is at
    expanded,           \* the items download_album was called with, in order
    submitted,          \* every job handed to pool.execute, in order
    dqueue,             \* the pool's job channel: indexes into submitted
    dworkers,           \* the pool's threads: the job each one runs, 0 for none
    outcomes,           \* for every job, the attempts of it that ended
    files,              \* the paths File::create has made
    dirs,               \* the album directories fs::create_dir has made
    dret                \* what download_all returned

downloadVars == <<dpc, include_albums, listing, idx, expanded, submitted, dqueue, dworkers,
                  outcomes, files, dirs, dret>>

\* auth::request_code
VARIABLES
    rpc,                \* where the thread that called request_code stands
    stdin,              \* the lines the standard input still holds
    code,               \* the local String of request_code
    rret                \* what request_code returned

requestVars == <<rpc, stdin, code, rret>>

\* Media::from and Info::from on a record of the server
VARIABLES
    given,              \* the response::Media or response::Info to convert
    converted           \* Option: the crate::Result the conversion returned

convertVars == <<given, converted>>

vars == <<tokenVars, collectVars, downloadVars, requestVars, convertVars>>

\* What the steps of one component leave alone.
TokenOnly == UNCHANGED <<collectVars, downloadVars, requestVars, convertVars>>
CollectOnly == UNCHANGED <<tokenVars, downloadVars, requestVars, convertVars>>

\* request_code blocks the thread that called it: while it runs, that thread
\* makes no other call.
InRequest == rpc \in {"prompt", "read"}

\* -------------------------------------------------------------------- time
Seconds(n) == n * TicksPerSecond
Hours(n) == Seconds(n * 3600)
Days(n) == Hours(n * 24)

AVAILABILITY_HOURS == 1

\* ------------------------------------------------------------ HTTP replies
\* What reqwest hands back for one request: no reply at all (a transport
\* failure), or a status line and a body.  `json` tells whether the body
\* decodes into the struct the caller asks for.
Statuses == {200, 300, 404}
ExpiresIn == {0, 3600}
Latencies == {0, 1}

Garbage == [json |-> FALSE, access_token |-> "", user_id |-> 0, expires_in |-> 0]

\* The user a token the server issues belongs to.
UserOf(access_token) == IF access_token = "T2" THEN 8 ELSE 7

TokenBodies ==
    {Garbage} \cup
    {[json |-> TRUE, access_token |-> a, user_id |-> UserOf(a), expires_in |-> e] :
        a \in {"T1", "T2"}, e \in ExpiresIn}

TransportFailure == [delivered |-> FALSE, status |-> 0, body |-> Garbage, latency |-> 0]

\* The replies the token endpoints are tried with: no reply, an error status,
\* a 300 the client does not follow, and a 200; the time a reply takes only
\* matters when a token is made of it.
TokenReplies ==
    {TransportFailure} \cup
    [delivered : {TRUE}, status : {404}, body : {Garbage}, latency : {0}] \cup
    [delivered : {TRUE}, status : {300},
     body : {b \in TokenBodies : b.access_token # "T1"}, latency : {0}] \cup
    [delivered : {TRUE}, status : {200}, body : {Garbage}, latency : {0}] \cup
    [delivered : {TRUE}, status : {200}, body : TokenBodies \ {Garbage},
     latency : Latencies]

\* Response::error_for_status: Err for a client or server error status.
error_for_status(status) == status >= 400 /\ status <= 599

\* send()?.error_for_status()? followed by json()?: the first step that fails.
HttpJson(reply) ==
    IF ~reply.delivered THEN "transport"
    ELSE IF error_for_status(reply.status) THEN "status"
    ELSE IF ~reply.body.json THEN "decode"
    ELSE "ok"

\* ------------------------------------------------------------------ tokens
\* A mutant of is_valid: the comparison includes the expiration instant.
is_valid_Inclusive(token, t) == t <= token.expiration_date

\* Token::is_valid
is_valid(token, t) == t < token.expiration_date

\* A mutant of the conversion: the lifetime is counted in seconds, not hours.
ShortLivedToken_from_Seconds(body, t) ==
    [access_token |-> body.access_token,
     user_id |-> body.user_id,
     expiration_date |-> t + Seconds(AVAILABILITY_HOURS)]

\* From<response::ShortLivedToken> for ShortLivedToken
ShortLivedToken_from(body, t) ==
    [access_token |-> body.access_token,
     user_id |-> body.user_id,
     expiration_date |-> t + Hours(AVAILABILITY_HOURS)]

\* A mutant of ShortLivedToken::new: a failed POST is sent once more.
ShortLivedToken_new_Retry(reply, t) ==
    LET h == HttpJson(reply) IN
    IF h # "ok"
    THEN [ok |-> FALSE, err |-> h, sent |-> 2, token |-> <<>>]
    ELSE [ok |-> TRUE, err |-> "", sent |-> 1,
          token |-> <<ShortLivedToken_from(reply.body, t + reply.latency)>>]

\* ShortLivedToken::new: one POST, then the conversion of the decoded body.
ShortLivedToken_new(reply, t) ==
    LET h == HttpJson(reply) IN
    IF h # "ok"
    THEN [ok |-> FALSE, err |-> h, sent |-> 1, token |-> <<>>]
    ELSE [ok |-> TRUE, err |-> "", sent |-> 1,
          token |-> <<ShortLivedToken_from(reply.body, t + reply.latency)>>]

\* A mutant of LongLivedToken::new: the validity check is missing.
LongLivedToken_new_Unchecked(short, reply, t) ==
    LET h == HttpJson(reply) IN
    IF h # "ok"
    THEN [ok |-> FALSE, err |-> h, sent |-> 1, token |-> <<>>]
    ELSE [ok |-> TRUE, err |-> "", sent |-> 1,
          token |-> <<[access_token |-> reply.body.access_token,
                       user_id |-> short.user_id,
                       expiration_date |->
                           t + reply.latency + Seconds(reply.body.expires_in)]>>]

\* A mutant of LongLivedToken::new: the user_id is taken from the reply.
LongLivedToken_new_ReplyUser(short, reply, t) ==
    IF ~is_valid(short, t)
    THEN [ok |-> FALSE, err |-> "short-lived token has been expired", sent |-> 0,
          token |-> <<>>]
    ELSE LET h == HttpJson(reply) IN
         IF h # "ok"
         THEN [ok |-> FALSE, err |-> h, sent |-> 1, token |-> <<>>]
         ELSE [ok |-> TRUE, err |-> "", sent |-> 1,
               token |-> <<[access_token |-> reply.body.access_token,
                            user_id |-> reply.body.user_id,
                            expiration_date |->
                                t + reply.latency + Seconds(reply.body.expires_in)]>>]

\* LongLivedToken::new
LongLivedToken_new(short, reply, t) ==
    IF ~is_valid(short, t)
    THEN [ok |-> FALSE, err |-> "short-lived token has been expired", sent |-> 0,
          token |-> <<>>]
    ELSE LET h == HttpJson(reply) IN
         IF h # "ok"
         THEN [ok |-> FALSE, err |-> h, sent |-> 1, token |-> <<>>]
         ELSE [ok |-> TRUE, err |-> "", sent |-> 1,
               token |-> <<[access_token |-> reply.body.access_token,
                            user_id |-> short.user_id,
                            expiration_date |->
                                t + reply.latency + Seconds(reply.body.expires_in)]>>]

\* A mutant of refresh: access_token is assigned as soon as a reply arrives,
\* before the status check and the decoding of the body.
refresh_EarlyAssign(self, reply, t) ==
    IF ~is_valid(self, t)
    THEN [ok |-> FALSE, err |-> "token has been expired", sent |-> 0, token |-> self]
    ELSE LET h == HttpJson(reply) IN
         IF h = "transport"
         THEN [ok |-> FALSE, err |-> h, sent |-> 1, token |-> self]
         ELSE IF h # "ok"
         THEN [ok |-> FALSE, err |-> h, sent |-> 1,
               token |-> [self EXCEPT !.access_token = "T2"]]
         ELSE [ok |-> TRUE, err |-> "", sent |-> 1,
               token |-> [self EXCEPT
                   !.access_token = reply.body.access_token,
                   !.expiration_date =
                       t + reply.latency + Seconds(reply.body.expires_in)]]

\* A mutant of refresh: the validity check is missing.
refresh_Unchecked(self, reply, t) ==
    LET h == HttpJson(reply) IN
    IF h # "ok"
    THEN [ok |-> FALSE, err |-> h, sent |-> 1, token |-> self]
    ELSE [ok |-> TRUE, err |-> "", sent |-> 1,
          token |-> [self EXCEPT
              !.access_token = reply.body.access_token,
              !.expiration_date =
                  t + reply.latency + Seconds(reply.body.expires_in)]]

\* LongLivedToken::refresh: `token` is *self when the call returns.
refresh(self, reply, t) ==
    IF ~is_valid(self, t)
    THEN [ok |-> FALSE, err |-> "token has been expired", sent |-> 0, token |-> self]
    ELSE LET h == HttpJson(reply) IN
         IF h # "ok"
         THEN [ok |-> FALSE, err |-> h, sent |-> 1, token |-> self]
         ELSE [ok |-> TRUE, err |-> "", sent |-> 1,
               token |-> [self EXCEPT
                   !.access_token = reply.body.access_token,
                   !.expiration_date =
                       t + reply.latency + Seconds(reply.body.expires_in)]]

\* --------------------------------------------------------- the token file
\* #[serde(with = "chrono::serde::ts_seconds")]: the expiration is written as
\* whole seconds since the epoch.
serialize(token) ==
    [json |-> TRUE,
     access_token |-> token.access_token,
     user_id |-> token.user_id,
     expiration_date |-> token.expiration_date \div TicksPerSecond]

deserialize(json) ==
    [access_token |-> json.access_token,
     user_id |-> json.user_id,
     expiration_date |-> Seconds(json.expiration_date)]

REFRESH_THRESHOLD_DAYS == 7

\* token::save: `writable` tells whether fs::write succeeds.
save(token, file, writable) ==
    IF writable THEN <<serialize(token)>> ELSE file

\* A mutant of token::load: a token with exactly REFRESH_THRESHOLD_DAYS left
\* is refreshed too.
load_RefreshAtThreshold(file, reply, writable, t) ==
    IF file = <<>>
    THEN [ok |-> FALSE, err |-> "file doesn't exist", sent |-> 0, refreshes |-> 0,
          token |-> <<>>, file |-> file]
    ELSE IF ~file[1].json
    THEN [ok |-> FALSE, err |-> "decode", sent |-> 0, refreshes |-> 0,
          token |-> <<>>, file |-> file]
    ELSE LET token == deserialize(file[1]) IN
         IF ~is_valid(token, t)
         THEN [ok |-> FALSE, err |-> "token has been expired", sent |-> 0,
               refreshes |-> 0, token |-> <<>>, file |-> file]
         ELSE IF token.expiration_date - Days(REFRESH_THRESHOLD_DAYS) <= t
         THEN LET r == refresh(token, reply, t) IN
              [ok |-> TRUE, err |-> "", sent |-> r.sent, refreshes |-> 1,
               token |-> <<r.token>>,
               file |-> IF r.ok THEN save(r.token, file, writable) ELSE file]
         ELSE [ok |-> TRUE, err |-> "", sent |-> 0, refreshes |-> 0,
               token |-> <<token>>, file |-> file]

\* A mutant of token::load: a refresh that fails makes load fail.
load_FatalRefresh(file, reply, writable, t) ==
    IF file = <<>>
    THEN [ok |-> FALSE, err |-> "file doesn't exist", sent |-> 0, refreshes |-> 0,
          token |-> <<>>, file |-> file]
    ELSE IF ~file[1].json
    THEN [ok |-> FALSE, err |-> "decode", sent |-> 0, refreshes |-> 0,
          token |-> <<>>, file |-> file]
    ELSE LET token == deserialize(file[1]) IN
         IF ~is_valid(token, t)
         THEN [ok |-> FALSE, err |-> "token has been expired", sent |-> 0,
               refreshes |-> 0, token |-> <<>>, file |-> file]
         ELSE IF token.expiration_date - Days(REFRESH_THRESHOLD_DAYS) < t
         THEN LET r == refresh(token, reply, t) IN
              IF r.ok
              THEN [ok |-> TRUE, err |-> "", sent |-> r.sent, refreshes |-> 1,
                    token |-> <<r.token>>, file |-> save(r.token, file, writable)]
              ELSE [ok |-> FALSE, err |-> r.err, sent |-> r.sent, refreshes |-> 1,
                    token |-> <<>>, file |-> file]
         ELSE [ok |-> TRUE, err |-> "", sent |-> 0, refreshes |-> 0,
               token |-> <<token>>, file |-> file]

\* token::load
load(file, reply, writable, t) ==
    IF file = <<>>
    THEN [ok |-> FALSE, err |-> "file doesn't exist", sent |-> 0, refreshes |-> 0,
          token |-> <<>>, file |-> file]
    ELSE IF ~file[1].json
    THEN [ok |-> FALSE, err |-> "decode", sent |-> 0, refreshes |-> 0,
          token |-> <<>>, file |-> file]
    ELSE LET token == deserialize(file[1]) IN
         IF ~is_valid(token, t)
         THEN [ok |-> FALSE, err |-> "token has been expired", sent |-> 0,
               refreshes |-> 0, token |-> <<>>, file |-> file]
         ELSE IF token.expiration_date - Days(REFRESH_THRESHOLD_DAYS) < t
         THEN LET r == refresh(token, reply, t) IN
              [ok |-> TRUE, err |-> "", sent |-> r.sent, refreshes |-> 1,
               token |-> <<r.token>>,
               file |-> IF r.ok THEN save(r.token, file, writable) ELSE file]
         ELSE [ok |-> TRUE, err |-> "", sent |-> 0, refreshes |-> 0,
               token |-> <<token>>, file |-> file]

\* ------------------------------------------------- token lifecycle actions
ClockSteps == {1, Seconds(1), Hours(AVAILABILITY_HOURS)}

NoReply == TransportFailure
NoCall == [op |-> "none", ok |-> FALSE, err |-> "", sent |-> 0, at |-> 0,
           before |-> <<>>, reply |-> NoReply, token |-> <<>>]

\* Expirations, in seconds, of the token a former run may have left.
StoredExpirations == {1, 86400 * REFRESH_THRESHOLD_DAYS}

TokenFiles ==
    {<<>>, <<Garbage @@ [expiration_date |-> 0]>>} \cup
    {<<[json |-> TRUE, access_token |-> "T0", user_id |-> 7, expiration_date |-> e]>> :
        e \in StoredExpirations}

TokenInit ==
    /\ now = 0
    /\ token_file \in TokenFiles
    /\ advances = 0
    /\ short_lived_token = <<>>
    /\ long_lived_token = <<>>
    /\ calls = 0
    /\ last = NoCall

\* Time passes between two calls.
Advance ==
    /\ TokenOnly
    /\ ~InRequest
    /\ advances < MaxAdvances
    /\ \E d \in ClockSteps : now' = now + d
    /\ advances' = advances + 1
    /\ UNCHANGED <<short_lived_token, long_lived_token, token_file, calls, last>>

\* The caller asks a token it holds whether it is valid.
IsValid ==
    /\ TokenOnly
    /\ ~InRequest
    /\ \E token \in {short_lived_token[i] : i \in DOMAIN short_lived_token}
                    \cup {long_lived_token[i] : i \in DOMAIN long_lived_token} :
          last' = [op |-> "is_valid", ok |-> is_valid(token, now), err |-> "",
                   sent |-> 0, at |-> now, before |-> <<token>>, reply |-> NoReply,
                   token |-> <<>>]
    /\ UNCHANGED <<now, advances, short_lived_token, long_lived_token, token_file,
                   calls>>

\* ShortLivedToken::new(secrets, code)
ExchangeCode ==
    /\ TokenOnly
    /\ ~InRequest
    /\ calls < MaxCalls
    /\ \E reply \in TokenReplies :
          LET r == ShortLivedToken_new(reply, now) IN
          /\ last' = [op |-> "exchangeCode", ok |-> r.ok, err |-> r.err, sent |-> r.sent,
                      at |-> now, before |-> <<>>, reply |-> reply, token |-> r.token]
          /\ calls' = calls + 1
          /\ now' = now + (IF r.sent > 0 THEN reply.latency ELSE 0)
          /\ short_lived_token' = IF r.ok THEN r.token ELSE short_lived_token
    /\ UNCHANGED <<advances, long_lived_token, token_file>>

\* LongLivedToken::new(secrets, short_lived_token): the short-lived token is
\* moved into the call.
ExchangeForLongLived ==
    /\ TokenOnly
    /\ ~InRequest
    /\ calls < MaxCalls
    /\ short_lived_token # <<>>
    /\ \E reply \in TokenReplies :
          LET r == LongLivedToken_new(short_lived_token[1], reply, now) IN
          /\ last' = [op |-> "exchangeForLongLived", ok |-> r.ok, err |-> r.err,
                      sent |-> r.sent, at |-> now, before |-> short_lived_token,
                      reply |-> reply, token |-> r.token]
          /\ calls' = calls + 1
          /\ now' = now + (IF r.sent > 0 THEN reply.latency ELSE 0)
          /\ long_lived_token' = IF r.ok THEN r.token ELSE long_lived_token
    /\ short_lived_token' = <<>>
    /\ UNCHANGED <<advances, token_file>>

\* long_lived_token.refresh()
Refresh ==
    /\ TokenOnly
    /\ ~InRequest
    /\ calls < MaxCalls
    /\ long_lived_token # <<>>
    /\ \E reply \in TokenReplies :
          LET r == refresh(long_lived_token[1], reply, now) IN
          /\ last' = [op |-> "refresh", ok |-> r.ok, err |-> r.err, sent |-> r.sent,
                      at |-> now, before |-> long_lived_token, reply |-> reply,
                      token |-> <<r.token>>]
          /\ calls' = calls + 1
          /\ now' = now + (IF r.sent > 0 THEN reply.latency ELSE 0)
          /\ long_lived_token' = <<r.token>>
    /\ UNCHANGED <<advances, short_lived_token, token_file>>

\* token::load(None): the caller keeps the token it returns.
Load ==
    /\ TokenOnly
    /\ ~InRequest
    /\ calls < MaxCalls
    /\ \E reply \in TokenReplies, writable \in BOOLEAN :
          LET r == load(token_file, reply, writable, now) IN
          /\ last' = [op |-> "load", ok |-> r.ok, err |-> r.err, sent |-> r.sent,
                      at |-> now, before |-> <<>>, reply |-> reply, token |-> r.token,
                      refreshes |-> r.refreshes]
          /\ calls' = calls + 1
          /\ now' = now + (IF r.sent > 0 THEN reply.latency ELSE 0)
          /\ long_lived_token' = IF r.ok THEN r.token ELSE long_lived_token
          /\ token_file' = r.file
    /\ UNCHANGED <<advances, short_lived_token>>

\* token::save(&token, Some(path)), as log_in does after the exchange.
Save ==
    /\ TokenOnly
    /\ ~InRequest
    /\ calls < MaxCalls
    /\ long_lived_token # <<>>
    /\ \E writable \in BOOLEAN :
          token_file' = save(long_lived_token[1], token_file, writable)
    /\ calls' = calls + 1
    /\ UNCHANGED <<now, advances, short_lived_token, long_lived_token, last>>

\* The JSON texts a caller may hand to serde: one that is no token and the
\* serialized form of a short-lived token.
ShortJsons ==
    {Garbage @@ [expiration_date |-> 0],
     [json |-> TRUE, access_token |-> "T1", user_id |-> 7,
      expiration_date |-> 3600 * AVAILABILITY_HOURS]}

\* serde_json::from_str::<ShortLivedToken>: the struct derives Deserialize,
\* so any caller of the library can make one from JSON.
DeserializeShort ==
    /\ TokenOnly
    /\ ~InRequest
    /\ calls < MaxCalls
    /\ \E json \in ShortJsons :
          LET token == IF json.json THEN <<deserialize(json)>> ELSE <<>> IN
          /\ last' = [op |-> "deserialize", ok |-> json.json,
                      err |-> IF json.json THEN "" ELSE "decode", sent |-> 0,
                      at |-> now, before |-> <<>>, reply |-> NoReply, token |-> token]
          /\ short_lived_token' = IF json.json THEN token ELSE short_lived_token
    /\ calls' = calls + 1
    /\ UNCHANGED <<now, advances, long_lived_token, token_file>>

\* ---------------------------------------------------------- server records
\* A string the code parses is a sequence of one-character strings.
DigitChars == <<"0", "1", "2", "3", "4", "5", "6", "7", "8", "9">>

IsDigit(c) == \E d \in DOMAIN DigitChars : DigitChars[d] = c

DigitValue(c) == (CHOOSE d \in DOMAIN DigitChars : DigitChars[d] = c) - 1

RECURSIVE Decimal(_)
Decimal(s) ==
    IF s = <<>> THEN 0
    ELSE 10 * Decimal(SubSeq(s, 1, Len(s) - 1)) + DigitValue(s[Len(s)])

\* str::parse::<u64> on the strings the model uses (never longer than u64).
parse_u64(s) ==
    IF s = <<>> \/ \E i \in DOMAIN s : ~IsDigit(s[i])
    THEN [ok |-> FALSE, val |-> 0]
    ELSE [ok |-> TRUE, val |-> Decimal(s)]

\* u64 Display, as format! writes an id into a URL or a file name.
RECURSIVE to_string(_)
to_string(n) ==
    IF n < 10 THEN <<DigitChars[n + 1]>>
    ELSE Append(to_string(n \div 10), DigitChars[(n % 10) + 1])

\* DateTime::parse_from_str(_, "%FT%T%z") and str::parse::<Url>: the model
\* knows one well-formed and one malformed string of each kind.
GoodTimestamp == "2022-03-01T10:20:30+0000"
BadTimestamp == "2022-03-01 10:20"
GoodUrl == "https://cdn.example/m.jpg"
\* The user name of the records.
OwnerName == "owner"
BadUrl == "cdn example"

parse_timestamp(s) == [ok |-> s = GoodTimestamp, val |-> s]

parse_url(s) == [ok |-> s = GoodUrl, val |-> s]

\* crate::parse_opt
parse_opt(opt) ==
    IF opt = <<>> THEN [ok |-> TRUE, val |-> <<>>]
    ELSE LET r == parse_url(opt[1]) IN
         [ok |-> r.ok, val |-> IF r.ok THEN <<r.val>> ELSE <<>>]

MediaTypes == {"IMAGE", "VIDEO", "CAROUSEL_ALBUM"}

NoMedia == [id |-> 0, media_type |-> "", username |-> "", timestamp |-> "", media_url |-> ""]

\* A mutant of Media::from: an unknown type tag becomes an image.
Media_from_Lenient(response) ==
    [ok |-> TRUE, err |-> "",
     media |-> [id |-> parse_u64(response.id).val,
                media_type |-> IF response.media_type \in MediaTypes
                               THEN response.media_type ELSE "IMAGE",
                username |-> response.username,
                timestamp |-> response.timestamp,
                media_url |-> response.media_url]]

\* Media::from(response::Media)
Media_from(response) ==
    LET id == parse_u64(response.id)
        timestamp == parse_timestamp(response.timestamp)
        media_url == parse_url(response.media_url)
        permalink == parse_opt(response.permalink)
        thumbnail_url == parse_opt(response.thumbnail_url)
    IN  IF ~id.ok THEN [ok |-> FALSE, err |-> "ParseIntError", media |-> NoMedia]
        ELSE IF response.media_type \notin MediaTypes
        THEN [ok |-> FALSE, err |-> "invalid media type", media |-> NoMedia]
        ELSE IF ~timestamp.ok
        THEN [ok |-> FALSE, err |-> "chrono::ParseError", media |-> NoMedia]
        ELSE IF ~media_url.ok \/ ~permalink.ok \/ ~thumbnail_url.ok
        THEN [ok |-> FALSE, err |-> "url::ParseError", media |-> NoMedia]
        ELSE [ok |-> TRUE, err |-> "",
              media |-> [id |-> id.val,
                         media_type |-> response.media_type,
                         username |-> response.username,
                         timestamp |-> timestamp.val,
                         media_url |-> media_url.val]]

AccountTypes == {"BUSINESS", "MEDIA_CREATOR", "PERSONAL"}

NoInfo == [username |-> "", account_type |-> "", media_count |-> 0]

\* Info::from(response::Info)
Info_from(response) ==
    IF response.account_type \notin AccountTypes
    THEN [ok |-> FALSE, err |-> "invalid account type", info |-> NoInfo]
    ELSE [ok |-> TRUE, err |-> "",
          info |-> [username |-> response.username,
                    account_type |-> response.account_type,
                    media_count |-> response.media_count]]

\* The tags a server may send: the three the client knows of each kind, the
\* tag of the other kind, an unknown one, a known one in lower case and the
\* empty string.
Tags == MediaTypes \cup AccountTypes \cup {"UNKNOWN", "image", "personal", ""}

\* The records the conversions are tried with: every tag, with fields that
\* parse or do not.
MediaResponses ==
    [id : {<<"1", "2">>, <<"x">>, <<>>},
     media_type : Tags,
     username : {OwnerName},
     timestamp : {GoodTimestamp, BadTimestamp},
     media_url : {GoodUrl, BadUrl},
     permalink : {<<>>, <<GoodUrl>>},
     thumbnail_url : {<<>>, <<BadUrl>>}]

InfoResponses ==
    [account_type : Tags, media_count : {0, 25}, username : {"owner", ""}]

\* No conversion is tried.
ConvertOff ==
    /\ given = <<>>
    /\ converted = <<>>

ConvertInit ==
    /\ given \in [kind : {"media"}, body : MediaResponses] \cup
                 [kind : {"info"}, body : InfoResponses]
    /\ converted = <<>>

\* Media::from is called with the record, as a parse job does at line 163.
IntoMedia ==
    /\ converted = <<>>
    /\ given.kind = "media"
    /\ converted' = <<Media_from(given.body)>>
    /\ UNCHANGED <<given, tokenVars, collectVars, downloadVars, requestVars>>

\* Info::from is called with the record, as Profile::info does.
IntoInfo ==
    /\ converted = <<>>
    /\ given.kind = "info"
    /\ converted' = <<Info_from(given.body)>>
    /\ UNCHANGED <<given, tokenVars, collectVars, downloadVars, requestVars>>

\* The records a server is tried with.  Record j of the k-th page of an
\* ep carries the id "<ep>kj", ep being the id in the endpoint; `defect` makes one of its fields
\* unparsable.
Defects == <<"id", "type", "timestamp", "url">>

Record(ep, k, j, type, defect) ==
    [id |-> IF defect = "id" THEN <<"x">>
            ELSE ep \o <<DigitChars[k + 1], DigitChars[j + 1]>>,
     media_type |-> IF defect = "type" THEN "UNKNOWN" ELSE type,
     username |-> OwnerName,
     timestamp |-> IF defect = "timestamp" THEN BadTimestamp ELSE GoodTimestamp,
     media_url |-> IF defect = "url" THEN BadUrl ELSE GoodUrl,
     permalink |-> <<>>,
     thumbnail_url |-> <<>>]

\* The defect tried at a place: every kind occurs at some place.
DefectAt(k, j) == Defects[((k + j) % Len(Defects)) + 1]

\* The pages of at most `len` well-formed records.
GoodPages(ep, k, len, types) ==
    UNION {{[j \in 1..n |-> Record(ep, k, j, t[j], "")] : t \in [1..n -> types]} :
           n \in 0..len}

\* The pages of images whose first or last record is defective.
BadPages(ep, k, len) ==
    UNION {{[j \in 1..n |->
                Record(ep, k, j, "IMAGE", IF j = b THEN DefectAt(k, j) ELSE "")] :
               b \in {1, n}} :
           n \in 1..len}

defective(data) == \E j \in DOMAIN data : ~Media_from(data[j]).ok

\* ----------------------------------------------------------- page requests
\* paging.next: absent, a string that is no URL (written 0), the URL of the
\* first page (a cycle) or of a page not requested yet.
Cursors(k) == {<<>>, <<0>>, <<1>>, <<k + 1>>}

parse_opt_cursor(next) ==
    IF next = <<>> THEN [ok |-> TRUE, val |-> <<>>]
    ELSE IF next[1] > 0 THEN [ok |-> TRUE, val |-> next]
    ELSE [ok |-> FALSE, val |-> <<>>]

NoPage == [json |-> FALSE, data |-> <<>>, next |-> <<>>]

\* The replies to the k-th page request: no reply, an error status, a body
\* that is no page, a 300 the client does not follow, and 200 with a page.
\* At most MaxDefects pages of one traversal hold a defective record.
PageReplies(ep, k, defects) ==
    {[delivered |-> FALSE, status |-> 0, body |-> NoPage]} \cup
    [delivered : {TRUE}, status : {404}, body : {NoPage}] \cup
    [delivered : {TRUE}, status : {200}, body : {NoPage}] \cup
    [delivered : {TRUE}, status : {300},
     body : [json : {TRUE}, data : {<<>>}, next : {<<>>}]] \cup
    [delivered : {TRUE}, status : {200},
     body : [json : {TRUE},
             data : GoodPages(ep, k, MaxPageLen, {"IMAGE"}) \cup
                    (IF defects < MaxDefects
                     THEN BadPages(ep, k, MaxPageLen) ELSE {}),
             next : Cursors(k)]]

\* ---------------------------------------------------------- collect_media
Idle == [st |-> "idle", job |-> 0, i |-> 0]

Threads == 1..num_cpus

NoReturn == [st |-> "none", val |-> <<>>, err |-> ""]
Ok(val) == [st |-> "ok", val |-> val, err |-> ""]
Err(err) == [st |-> "err", val |-> <<>>, err |-> err]

\* A mutant of strong_count: the clone made for a job is never dropped.
strong_count_Leaked == 1 + Len(pages)

\* Arc::strong_count(&media): the caller's handle and one clone per job that
\* has not finished.
strong_count ==
    1 + Len(queue) + Cardinality({w \in Threads : workers[w].st # "idle"})

\* No call of collect_media has been made.
CollectInit ==
    /\ num_cpus \in 1..MaxCpus
    /\ parent = <<>>
    /\ pc = "idle"
    /\ endpoint = <<>>
    /\ url = <<>>
    /\ fetched = <<>>
    /\ page_reply = <<>>
    /\ pages = <<>>
    /\ queue = <<>>
    /\ workers = [w \in Threads |-> Idle]
    /\ media = <<>>
    /\ owner = 0
    /\ poisoned = FALSE
    /\ ret = NoReturn

\* Lines 147-151: the first URL, a new pool and the empty result.  The jobs
\* an earlier call left to its pool can no longer be observed.
collect_media(first) ==
    /\ pc' = "loop"
    /\ endpoint' = first
    /\ url' = <<1>>
    /\ fetched' = <<>>
    /\ page_reply' = <<>>
    /\ pages' = <<>>
    /\ queue' = <<>>
    /\ workers' = [w \in Threads |-> Idle]
    /\ media' = <<>>
    /\ owner' = 0
    /\ poisoned' = FALSE
    /\ ret' = NoReturn
    /\ UNCHANGED num_cpus

\* Profile::media
Media ==
    /\ CollectOnly
    /\ pc = "idle"
    /\ parent' = <<>>
    /\ collect_media(<<>>)

\* A mutant of album: the type of the parent is not looked at.
album_Unchecked(p) ==
    /\ parent' = <<p>>
    /\ collect_media(to_string(p.id))

\* Profile::album: an item that is no album is refused before the URL of
\* its children is built; nothing has been requested then.
album(p) ==
    /\ parent' = <<p>>
    /\ IF p.media_type # "CAROUSEL_ALBUM"
       THEN /\ pc' = "returned"
            /\ ret' = Err("parent must be an album")
            /\ endpoint' = <<>>
            /\ url' = <<>>
            /\ fetched' = <<>>
            /\ page_reply' = <<>>
            /\ pages' = <<>>
            /\ queue' = <<>>
            /\ workers' = [w \in Threads |-> Idle]
            /\ media' = <<>>
            /\ owner' = 0
            /\ poisoned' = FALSE
            /\ UNCHANGED num_cpus
       ELSE collect_media(to_string(p.id))

\* The items Profile::album is tried with: one of every type.
Parents ==
    {Media_from(Record(<<>>, 1, 1, t, "")).media : t \in MediaTypes}

\* A caller of the library calls Profile::album.
Album ==
    /\ CollectOnly
    /\ pc = "idle"
    /\ \E p \in Parents : album(p)

\* The replies tried on the next page request of a traversal.
NextPageReplies ==
    PageReplies(endpoint, Len(fetched) + 1,
                Cardinality({k \in DOMAIN pages : defective(pages[k])}))

\* A mutant of Fetch: with the request of a page the one of the page after
\* it is sent too, before the reply has been decoded.
Fetch_Prefetch(replies) ==
    /\ CollectOnly
    /\ pc = "loop"
    /\ url # <<>>
    /\ Len(fetched) < MaxFetches
    /\ \E r \in replies :
          LET h == HttpJson(r)
              next == parse_opt_cursor(r.body.next)
          IN  /\ fetched' = fetched \o <<url[1], url[1] + 1>>
              /\ page_reply' = <<r>>
              /\ IF h # "ok" \/ ~next.ok
                 THEN /\ pc' = "returned"
                      /\ ret' = Err(IF h # "ok" THEN h ELSE "url::ParseError")
                      /\ UNCHANGED <<url, pages, queue>>
                 ELSE /\ url' = next.val
                      /\ pages' = Append(pages, r.body.data)
                      /\ queue' = Append(queue, Len(pages) + 1)
                      /\ pc' = IF next.val = <<>> THEN "join" ELSE "loop"
                      /\ ret' = ret
    /\ UNCHANGED <<num_cpus, parent, endpoint, workers, media, owner, poisoned>>

\* Lines 153-166: one turn of the while loop.  A failure of send,
\* error_for_status, json or parse_opt returns from collect_media at once.
Fetch(replies) ==
    /\ CollectOnly
    /\ pc = "loop"
    /\ url # <<>>
    /\ Len(fetched) < MaxFetches
    /\ \E r \in replies :
          LET h == HttpJson(r)
              next == parse_opt_cursor(r.body.next)
          IN  /\ fetched' = Append(fetched, url[1])
              /\ page_reply' = <<r>>
              /\ IF h # "ok" \/ ~next.ok
                 THEN /\ pc' = "returned"
                      /\ ret' = Err(IF h # "ok" THEN h ELSE "url::ParseError")
                      /\ UNCHANGED <<url, pages, queue>>
                 ELSE /\ url' = next.val
                      /\ pages' = Append(pages, r.body.data)
                      /\ queue' = Append(queue, Len(pages) + 1)
                      /\ pc' = IF next.val = <<>> THEN "join" ELSE "loop"
                      /\ ret' = ret
    /\ UNCHANGED <<num_cpus, parent, endpoint, workers, media, owner, poisoned>>

\* A thread of the pool takes the oldest job of the channel.
Dequeue ==
    /\ CollectOnly
    /\ queue # <<>>
    /\ \E w \in Threads :
          /\ workers[w].st = "idle"
          /\ \A v \in Threads : workers[v].st = "idle" => w <= v
          /\ workers' = [workers EXCEPT ![w] = [st |-> "start", job |-> Head(queue), i |-> 0]]
    /\ queue' = Tail(queue)
    /\ UNCHANGED <<num_cpus, parent, pc, endpoint, url, fetched, page_reply, pages, media, owner, poisoned, ret>>

\* A mutant of Lock: the thread does not wait for the mutex to be free.
Lock_NoWait(w) ==
    /\ CollectOnly
    /\ workers[w].st = "start"
    /\ IF poisoned
       THEN /\ workers' = [workers EXCEPT ![w] = Idle]
            /\ owner' = owner
       ELSE /\ workers' = [workers EXCEPT ![w].st = "locked"]
            /\ owner' = w
    /\ UNCHANGED <<num_cpus, parent, pc, endpoint, url, fetched, page_reply, pages, queue, media, poisoned, ret>>

\* Line 161: tx.lock().unwrap() panics when the mutex is poisoned.
Lock(w) ==
    /\ CollectOnly
    /\ workers[w].st = "start"
    /\ owner = 0
    /\ IF poisoned
       THEN /\ workers' = [workers EXCEPT ![w] = Idle]
            /\ owner' = owner
       ELSE /\ workers' = [workers EXCEPT ![w].st = "locked"]
            /\ owner' = w
    /\ UNCHANGED <<num_cpus, parent, pc, endpoint, url, fetched, page_reply, pages, queue, media, poisoned, ret>>

\* A mutant of Push: a record that does not convert is skipped.
Push_SkipBad(w) ==
    /\ CollectOnly
    /\ workers[w].st = "locked"
    /\ workers[w].i < Len(pages[workers[w].job])
    /\ LET m == Media_from(pages[workers[w].job][workers[w].i + 1]) IN
       media' = IF m.ok THEN Append(media, m.media) ELSE media
    /\ workers' = [workers EXCEPT ![w].i = @ + 1]
    /\ UNCHANGED <<num_cpus, parent, pc, endpoint, url, fetched, page_reply, pages, queue,
                   owner, poisoned, ret>>

\* Lines 162-164: the next record is converted and pushed; unwrap panics on a
\* record that does not convert, and the guard dropped by the panic poisons
\* the mutex.
Push(w) ==
    /\ CollectOnly
    /\ workers[w].st = "locked"
    /\ workers[w].i < Len(pages[workers[w].job])
    /\ LET m == Media_from(pages[workers[w].job][workers[w].i + 1]) IN
       IF m.ok
       THEN /\ media' = Append(media, m.media)
            /\ workers' = [workers EXCEPT ![w].i = @ + 1]
            /\ UNCHANGED <<owner, poisoned>>
       ELSE /\ poisoned' = TRUE
            /\ owner' = 0
            /\ workers' = [workers EXCEPT ![w] = Idle]
            /\ media' = media
    /\ UNCHANGED <<num_cpus, parent, pc, endpoint, url, fetched, page_reply, pages, queue, ret>>

\* Line 165: the closure ends; the guard and the Arc clone are dropped.
Finish(w) ==
    /\ CollectOnly
    /\ workers[w].st = "locked"
    /\ workers[w].i = Len(pages[workers[w].job])
    /\ owner' = 0
    /\ workers' = [workers EXCEPT ![w] = Idle]
    /\ UNCHANGED <<num_cpus, parent, pc, endpoint, url, fetched, page_reply, pages, queue, media, poisoned, ret>>

\* A mutant of Join: the list is taken as soon as no job is queued, while
\* jobs may still be running.
Join_Early ==
    /\ CollectOnly
    /\ pc = "join"
    /\ queue = <<>>
    /\ pc' = "returned"
    /\ ret' = IF poisoned THEN Err("PoisonError") ELSE Ok(media)
    /\ UNCHANGED <<num_cpus, parent, endpoint, url, fetched, page_reply, pages, queue, workers, media, owner,
                   poisoned>>

\* A mutant of joined: join only waits for the channel to be empty.
joined_QueueOnly == queue = <<>>

\* ThreadPool::join returns when no job is queued and none is running.
joined == queue = <<>> /\ \A w \in Threads : workers[w].st = "idle"

\* Lines 168-172
Join ==
    /\ CollectOnly
    /\ pc = "join"
    /\ joined
    /\ pc' = "returned"
    /\ ret' = IF strong_count # 1 THEN Err("failed to consume result")
              ELSE IF poisoned THEN Err("PoisonError")
              ELSE Ok(media)
    /\ UNCHANGED <<num_cpus, parent, endpoint, url, fetched, page_reply, pages, queue, workers, media, owner,
                   poisoned>>

\* ------------------------------------------------------------ request_code
\* A line of the standard input is a sequence of one-character strings that
\* ends with a newline; at the end of the input read_line appends nothing.
Whitespace == {" ", "\n"}

Lines == {<<"\n">>, <<" ", "\n">>, <<"c", "\n">>, <<" ", "c", " ", "\n">>}

RECURSIVE trim_start(_)
trim_start(s) ==
    IF s # <<>> /\ Head(s) \in Whitespace THEN trim_start(Tail(s)) ELSE s

RECURSIVE trim_end(_)
trim_end(s) ==
    IF s # <<>> /\ s[Len(s)] \in Whitespace
    THEN trim_end(SubSeq(s, 1, Len(s) - 1)) ELSE s

\* str::trim
trim(s) == trim_end(trim_start(s))

\* The inputs a run may find: at most MaxLines lines, then the end.
Stdins == UNION {[1..n -> Lines] : n \in 0..MaxLines}

\* request_code has not been called; nothing can be read.
RequestOff ==
    /\ rpc = "idle"
    /\ stdin = <<>>
    /\ code = <<>>
    /\ rret = NoReturn

RequestInit ==
    /\ rpc = "idle"
    /\ stdin \in Stdins
    /\ code = <<>>
    /\ rret = NoReturn

\* What is left of a call once request_code has returned.
request_code_returns(result) ==
    /\ rpc' = "returned"
    /\ rret' = result
    /\ last' = [op |-> "request_code", ok |-> result.st = "ok", err |-> result.err,
                sent |-> 0, at |-> now, before |-> <<>>, reply |-> NoReply,
                token |-> <<>>]

\* Lines 207-215: the URL is built and handed to the browser (a failure of
\* open::that is only printed), and `code` starts empty.  log_in asks for
\* the code before it calls any token operation.
RequestCode ==
    /\ rpc = "idle"
    /\ last = NoCall
    /\ rpc' = "prompt"
    /\ code' = <<>>
    /\ UNCHANGED <<stdin, rret>>
    /\ UNCHANGED <<tokenVars, collectVars, downloadVars, convertVars>>

\* Lines 217-218: the prompt is printed and flushed; `flushes` tells whether
\* the flush can succeed or fail.
Prompt(flushes) ==
    /\ rpc = "prompt"
    /\ \E flushed \in flushes :
          IF flushed
          THEN /\ rpc' = "read"
               /\ UNCHANGED <<rret, last>>
          ELSE request_code_returns(Err("io::Error"))
    /\ UNCHANGED <<stdin, code>>
    /\ UNCHANGED <<now, advances, short_lived_token, long_lived_token, token_file, calls>>
    /\ UNCHANGED <<collectVars, downloadVars, convertVars>>

\* Lines 219-226: read_line appends the next line to `code`, or nothing at
\* the end of the input, and returns Err only when the read itself fails
\* (`reads` tells whether it can).  A code that is empty after trim is asked
\* for again.
ReadLine(reads) ==
    /\ rpc = "read"
    /\ \E read \in reads :
          IF ~read
          THEN /\ request_code_returns(Err("io::Error"))
               /\ UNCHANGED <<stdin, code>>
          ELSE LET line == IF stdin = <<>> THEN <<>> ELSE Head(stdin)
                   trimmed == trim(code \o line)
               IN  /\ stdin' = IF stdin = <<>> THEN <<>> ELSE Tail(stdin)
                   /\ code' = trimmed
                   /\ IF trimmed # <<>>
                      THEN request_code_returns(Ok(trimmed))
                      ELSE /\ rpc' = "prompt"
                           /\ UNCHANGED <<rret, last>>
    /\ UNCHANGED <<now, advances, short_lived_token, long_lived_token, token_file, calls>>
    /\ UNCHANGED <<collectVars, downloadVars, convertVars>>

\* ------------------------------------------------------------ download_all
\* The directory download_all is given; the paths of the model are relative
\* to it.
OutputDir == ""

\* Another publish date than GoodTimestamp, one second later, and a URL
\* whose path has no extension.
LaterTimestamp == "2022-03-01T10:20:31+0000"
BareUrl == "https://cdn.example/m"

\* DateTime::format("%FT%H-%M-%S") of the publish dates the model knows:
\* digits, hyphens and one T, never an underscore or a dot.
format_timestamp(timestamp) ==
    IF timestamp = GoodTimestamp THEN "2022-03-01T10-20-30" ELSE "2022-03-01T10-20-31"

\* u64 Display as format! writes it into a String: the digits of to_string,
\* concatenated.
RECURSIVE fmt_u64(_)
fmt_u64(n) ==
    IF n < 10 THEN DigitChars[n + 1]
    ELSE fmt_u64(n \div 10) \o DigitChars[(n % 10) + 1]

\* A mutant of filename: the id is left out of the name.
filename_NoId(m) == m.username \o "_" \o format_timestamp(m.timestamp)

\* media.rs filename: format!("{}_{}_{}", username, id, timestamp), the
\* three parts concatenated into one String.
filename(m) ==
    m.username \o "_" \o fmt_u64(m.id) \o "_" \o format_timestamp(m.timestamp)

\* Path::new(url.path()).extension() of the URLs the model knows (Option).
extension(u) == IF u = GoodUrl THEN <<"jpg">> ELSE <<>>

\* Lines 141-147: a dot and the extension are pushed if the URL has one.
with_extension(name, u) ==
    IF extension(u) = <<>> THEN name ELSE name \o "." \o extension(u)[1]

\* The items the names are made for: user names with underscores and
\* digits in them, ids of one and two digits, both publish dates, URLs with
\* and without an extension.
NamedMedia ==
    [id : {1, 2, 12},
     media_type : {"IMAGE"},
     username : {"a", "a_1", "a_12"},
     timestamp : {GoodTimestamp, LaterTimestamp},
     media_url : {GoodUrl, BareUrl}]

\* Two items are to be written to one directory.
FilenameInit ==
    /\ given \in [kind : {"names"}, body : [a : NamedMedia, b : NamedMedia]]
    /\ converted = <<>>

\* The file names download_file makes for the two items.
Filenames ==
    /\ converted = <<>>
    /\ given.kind = "names"
    /\ converted' = <<[a |-> with_extension(filename(given.body.a), given.body.a.media_url),
                       b |-> with_extension(filename(given.body.b), given.body.b.media_url)]>>
    /\ UNCHANGED <<given, tokenVars, collectVars, downloadVars, requestVars>>

\* What happens to one download: whether File::create succeeds, the reply to
\* the GET (Option: none is a transport failure) and whether io::copy succeeds.
Smooth == [create |-> TRUE, status |-> <<200>>, copy |-> TRUE]

Mishaps ==
    <<[create |-> FALSE, status |-> <<200>>, copy |-> TRUE],
      [create |-> TRUE, status |-> <<>>, copy |-> TRUE],
      [create |-> TRUE, status |-> <<404>>, copy |-> TRUE],
      [create |-> TRUE, status |-> <<200>>, copy |-> FALSE],
      [create |-> TRUE, status |-> <<300>>, copy |-> TRUE]>>

\* The fates tried on the next attempt: at most MaxMishaps attempts of one
\* run are not smooth.
Fates(ended) ==
    {Smooth} \cup
    (IF Cardinality({i \in DOMAIN ended :
                        \E a \in DOMAIN ended[i] : ended[i][a].fate # Smooth}) < MaxMishaps
     THEN {Mishaps[i] : i \in DOMAIN Mishaps} ELSE {})

\* Lines 139-149: output_dir.join(filename), the path as the pair of the
\* directory and the name.
filepath(m, output_dir) == <<output_dir, with_extension(filename(m), m.media_url)>>

\* A mutant of download_file: the file is created when the reply is there.
download_file_CreateLate(path, fate) ==
    IF fate.status = <<>>
    THEN [ok |-> FALSE, err |-> "transport", made |-> {}, sent |-> 1]
    ELSE IF error_for_status(fate.status[1])
    THEN [ok |-> FALSE, err |-> "status", made |-> {}, sent |-> 1]
    ELSE IF ~fate.create
    THEN [ok |-> FALSE, err |-> "io::Error", made |-> {}, sent |-> 1]
    ELSE IF ~fate.copy
    THEN [ok |-> FALSE, err |-> "io::Error", made |-> {path}, sent |-> 1]
    ELSE [ok |-> TRUE, err |-> "", made |-> {path}, sent |-> 1]

\* download_file from line 150 on, with the path of lines 139-149: the
\* result, the file it made and the requests it sent.
download_file(path, fate) ==
    IF ~fate.create
    THEN [ok |-> FALSE, err |-> "io::Error", made |-> {}, sent |-> 0]
    ELSE IF fate.status = <<>>
    THEN [ok |-> FALSE, err |-> "transport", made |-> {path}, sent |-> 1]
    ELSE IF error_for_status(fate.status[1])
    THEN [ok |-> FALSE, err |-> "status", made |-> {path}, sent |-> 1]
    ELSE IF ~fate.copy
    THEN [ok |-> FALSE, err |-> "io::Error", made |-> {path}, sent |-> 1]
    ELSE [ok |-> TRUE, err |-> "", made |-> {path}, sent |-> 1]

\* download_all has not been called.
DownloadOff ==
    /\ dpc = "off"
    /\ include_albums = FALSE
    /\ listing = <<>>
    /\ idx = 0
    /\ expanded = <<>>
    /\ submitted = <<>>
    /\ dqueue = <<>>
    /\ dworkers = [w \in Threads |-> 0]
    /\ outcomes = <<>>
    /\ files = {}
    /\ dirs = {}
    /\ dret = NoReturn

\* download_all is called with either value of include_albums.
DownloadInit ==
    /\ dpc = "start"
    /\ include_albums \in BOOLEAN
    /\ listing = <<>>
    /\ idx = 0
    /\ expanded = <<>>
    /\ submitted = <<>>
    /\ dqueue = <<>>
    /\ dworkers = [w \in Threads |-> 0]
    /\ outcomes = <<>>
    /\ files = {}
    /\ dirs = {}
    /\ dret = NoReturn

\* Lines 28-35: the token is loaded and Profile::media is called.
LoadToken(replies) ==
    /\ dpc = "start"
    /\ \E reply \in replies, writable \in BOOLEAN :
          LET r == load(token_file, reply, writable, now) IN
          /\ last' = [op |-> "load", ok |-> r.ok, err |-> r.err, sent |-> r.sent,
                      at |-> now, before |-> <<>>, reply |-> reply, token |-> r.token,
                      refreshes |-> r.refreshes]
          /\ now' = now + (IF r.sent > 0 THEN reply.latency ELSE 0)
          /\ long_lived_token' = r.token
          /\ token_file' = r.file
          /\ IF r.ok
             THEN /\ dpc' = "media"
                  /\ parent' = <<>>
                  /\ collect_media(<<>>)
                  /\ dret' = dret
             ELSE /\ dpc' = "returned"
                  /\ dret' = Err("Couldn't load a token")
                  /\ UNCHANGED collectVars
    /\ UNCHANGED <<advances, short_lived_token, calls>>
    /\ UNCHANGED <<include_albums, listing, idx, expanded, submitted, dqueue, dworkers,
                   outcomes, files, dirs>>
    /\ UNCHANGED <<requestVars, convertVars>>

\* A mutant of MediaReturned: the items converted so far are taken while the
\* collection is still going on.
MediaReturned_Streaming ==
    /\ dpc = "media"
    /\ pc \in {"join", "returned"}
    /\ IF ret.st = "err"
       THEN /\ dpc' = "returned"
            /\ dret' = Err("Couldn't gather the information")
            /\ UNCHANGED <<listing, idx>>
       ELSE /\ dpc' = "dispatch"
            /\ listing' = media
            /\ idx' = 1
            /\ dret' = dret
    /\ UNCHANGED <<tokenVars, collectVars, requestVars, convertVars>>
    /\ UNCHANGED expanded
    /\ UNCHANGED <<include_albums, submitted, dqueue, dworkers, outcomes, files, dirs>>

\* Lines 35-41: Profile::media has returned; on success the pool is made.
MediaReturned ==
    /\ dpc = "media"
    /\ pc = "returned"
    /\ IF ret.st = "err"
       THEN /\ dpc' = "returned"
            /\ dret' = Err("Couldn't gather the information")
            /\ UNCHANGED <<listing, idx>>
       ELSE /\ dpc' = "dispatch"
            /\ listing' = ret.val
            /\ idx' = 1
            /\ dret' = dret
    /\ UNCHANGED <<tokenVars, collectVars, requestVars, convertVars>>
    /\ UNCHANGED expanded
    /\ UNCHANGED <<include_albums, submitted, dqueue, dworkers, outcomes, files, dirs>>

\* A job as pool.execute gets it: the item, the directory it goes to (empty
\* for output_dir itself) and the id of the album it is in.
Job(m, output_dir, parent_id) ==
    [media |-> m, dir |-> output_dir, parent |-> parent_id]

\* A mutant of Dispatch: include_albums is not looked at, every album is
\* expanded.
Dispatch_AlwaysExpand ==
    /\ dpc = "dispatch"
    /\ idx <= Len(listing)
    /\ LET m == listing[idx] IN
       IF m.media_type = "CAROUSEL_ALBUM"
       THEN /\ dpc' = "album"
            /\ album(m)
            /\ expanded' = Append(expanded, m)
            /\ UNCHANGED <<idx, submitted, dqueue, outcomes>>
       ELSE /\ submitted' = Append(submitted, Job(m, OutputDir, <<>>))
            /\ dqueue' = Append(dqueue, Len(submitted) + 1)
            /\ outcomes' = Append(outcomes, <<>>)
            /\ idx' = idx + 1
            /\ UNCHANGED <<dpc, expanded, collectVars>>
    /\ UNCHANGED <<tokenVars, requestVars, convertVars>>
    /\ UNCHANGED <<include_albums, listing, dworkers, files, dirs, dret>>

\* Lines 42-57: one turn of the for loop.  An album is skipped or, with
\* include_albums, expanded: download_album calls Profile::album, which
\* starts collect_media on the album's children.
Dispatch ==
    /\ dpc = "dispatch"
    /\ idx <= Len(listing)
    /\ LET m == listing[idx] IN
       IF m.media_type = "CAROUSEL_ALBUM"
       THEN IF include_albums
            THEN /\ dpc' = "album"
                 /\ album(m)
                 /\ expanded' = Append(expanded, m)
                 /\ UNCHANGED <<idx, submitted, dqueue, outcomes>>
            ELSE /\ idx' = idx + 1
                 /\ UNCHANGED <<dpc, expanded, submitted, dqueue, outcomes, collectVars>>
       ELSE /\ submitted' = Append(submitted, Job(m, OutputDir, <<>>))
            /\ dqueue' = Append(dqueue, Len(submitted) + 1)
            /\ outcomes' = Append(outcomes, <<>>)
            /\ idx' = idx + 1
            /\ UNCHANGED <<dpc, expanded, collectVars>>
    /\ UNCHANGED <<tokenVars, requestVars, convertVars>>
    /\ UNCHANGED <<include_albums, listing, dworkers, files, dirs, dret>>

\* A mutant of AlbumReturned: an album that cannot be expanded ends
\* download_all with an error.
AlbumReturned_Fatal ==
    /\ dpc = "album"
    /\ pc = "returned"
    /\ \E created \in BOOLEAN :
          LET output_dir == filename(listing[idx])
              album_id == listing[idx].id
              jobs == [j \in DOMAIN ret.val |-> Job(ret.val[j], output_dir, <<album_id>>)]
          IN  IF ret.st = "err" \/ ~created
              THEN /\ dpc' = "returned"
                   /\ dret' = Err("Couldn't download an album")
                   /\ UNCHANGED <<submitted, dqueue, outcomes, dirs>>
              ELSE /\ dirs' = dirs \cup {output_dir}
                   /\ submitted' = submitted \o jobs
                   /\ dqueue' = dqueue \o [j \in DOMAIN jobs |-> Len(submitted) + j]
                   /\ outcomes' = outcomes \o [j \in DOMAIN jobs |-> <<>>]
                   /\ dpc' = "dispatch"
                   /\ dret' = dret
    /\ idx' = idx + 1
    /\ UNCHANGED <<tokenVars, collectVars, requestVars, convertVars>>
    /\ UNCHANGED expanded
    /\ UNCHANGED <<include_albums, listing, dworkers, files>>

\* Lines 75-97: Profile::album has returned.  A failure of it or of
\* fs::create_dir is printed and the album is left; otherwise one job per
\* child is handed to the pool.
AlbumReturned ==
    /\ dpc = "album"
    /\ pc = "returned"
    /\ \E created \in BOOLEAN :
          LET output_dir == filename(listing[idx])
              album_id == listing[idx].id
              jobs == [j \in DOMAIN ret.val |-> Job(ret.val[j], output_dir, <<album_id>>)]
          IN  IF ret.st = "err"
              THEN UNCHANGED <<submitted, dqueue, outcomes, dirs>>
              ELSE IF ~created
              THEN UNCHANGED <<submitted, dqueue, outcomes, dirs>>
              ELSE /\ dirs' = dirs \cup {output_dir}
                   /\ submitted' = submitted \o jobs
                   /\ dqueue' = dqueue \o [j \in DOMAIN jobs |-> Len(submitted) + j]
                   /\ outcomes' = outcomes \o [j \in DOMAIN jobs |-> <<>>]
    /\ dpc' = "dispatch"
    /\ idx' = idx + 1
    /\ UNCHANGED <<tokenVars, collectVars, requestVars, convertVars>>
    /\ UNCHANGED expanded
    /\ UNCHANGED <<include_albums, listing, dworkers, files, dret>>

\* A mutant of DDequeue: the oldest job is started on a thread of its own,
\* whether or not a thread of the pool is free.
DDequeue_NoLimit ==
    /\ dqueue # <<>>
    /\ \E w \in Threads : dworkers' = [dworkers EXCEPT ![w] = Head(dqueue)]
    /\ dqueue' = Tail(dqueue)
    /\ UNCHANGED <<tokenVars, collectVars, requestVars, convertVars>>
    /\ UNCHANGED expanded
    /\ UNCHANGED <<dpc, include_albums, listing, idx, submitted, outcomes, files,
                   dirs, dret>>

\* A thread of the download pool takes the oldest job of the channel.
DDequeue ==
    /\ dqueue # <<>>
    /\ \E w \in Threads :
          /\ dworkers[w] = 0
          /\ \A v \in Threads : dworkers[v] = 0 => w <= v
          /\ dworkers' = [dworkers EXCEPT ![w] = Head(dqueue)]
    /\ dqueue' = Tail(dqueue)
    /\ UNCHANGED <<tokenVars, collectVars, requestVars, convertVars>>
    /\ UNCHANGED expanded
    /\ UNCHANGED <<dpc, include_albums, listing, idx, submitted, outcomes, files,
                   dirs, dret>>

\* The result of one attempt, as the job prints it or not.
Outcome(fate, r) == [fate |-> fate, ok |-> r.ok, err |-> r.err]

\* A mutant of DRun: a failed download empties the channel.
DRun_AbortOnFailure(w) ==
    /\ dworkers[w] # 0
    /\ LET job == submitted[dworkers[w]]
           path == filepath(job.media, job.dir)
       IN \E fate \in Fates(outcomes) :
          LET r == download_file(path, fate)
          IN  /\ outcomes' = [outcomes EXCEPT ![dworkers[w]] = Append(@, Outcome(fate, r))]
              /\ files' = files \cup r.made
              /\ dqueue' = IF r.ok THEN dqueue ELSE <<>>
    /\ dworkers' = [dworkers EXCEPT ![w] = 0]
    /\ UNCHANGED <<tokenVars, collectVars, requestVars, convertVars>>
    /\ UNCHANGED expanded
    /\ UNCHANGED <<dpc, include_albums, listing, idx, submitted, dirs, dret>>

\* A mutant of DRun: a job whose download failed is queued once more.
DRun_Requeue(w) ==
    /\ dworkers[w] # 0
    /\ LET job == submitted[dworkers[w]]
           path == filepath(job.media, job.dir)
       IN \E fate \in Fates(outcomes) :
          LET r == download_file(path, fate)
          IN  /\ outcomes' = [outcomes EXCEPT ![dworkers[w]] = Append(@, Outcome(fate, r))]
              /\ files' = files \cup r.made
              /\ dqueue' = IF r.ok THEN dqueue ELSE Append(dqueue, dworkers[w])
    /\ dworkers' = [dworkers EXCEPT ![w] = 0]
    /\ UNCHANGED <<tokenVars, collectVars, requestVars, convertVars>>
    /\ UNCHANGED expanded
    /\ UNCHANGED <<dpc, include_albums, listing, idx, submitted, dirs, dret>>

\* Lines 51-56 and 90-95: the closure of a job.  Whatever download_file
\* returns, the closure ends and the thread is free for the next job.
DRun(w) ==
    /\ dworkers[w] # 0
    /\ LET job == submitted[dworkers[w]]
           path == filepath(job.media, job.dir)
       IN \E fate \in Fates(outcomes) :
          LET r == download_file(path, fate)
          IN  /\ outcomes' = [outcomes EXCEPT ![dworkers[w]] = Append(@, Outcome(fate, r))]
              /\ files' = files \cup r.made
    /\ dworkers' = [dworkers EXCEPT ![w] = 0]
    /\ UNCHANGED <<tokenVars, collectVars, requestVars, convertVars>>
    /\ UNCHANGED expanded
    /\ UNCHANGED <<dpc, include_albums, listing, idx, submitted, dqueue, dirs, dret>>

\* A mutant of djoined: join only waits for the channel to be empty.
djoined_QueueOnly == dqueue = <<>>

\* ThreadPool::join of the download pool.
djoined == dqueue = <<>> /\ \A w \in Threads : dworkers[w] = 0

\* Lines 58-59: the for loop is over, the pool is joined and Ok(()) returned.
DJoin ==
    /\ dpc = "dispatch"
    /\ idx > Len(listing)
    /\ djoined
    /\ dpc' = "returned"
    /\ dret' = Ok(<<>>)
    /\ UNCHANGED <<tokenVars, collectVars, requestVars, convertVars>>
    /\ UNCHANGED expanded
    /\ UNCHANGED <<include_albums, listing, idx, submitted, dqueue, dworkers,
                   outcomes, files, dirs>>

\* ---------------------------------------------------------- specifications
\* The token lifecycle: the calls of auth.rs and of the example's token.rs.
Init ==
    /\ TokenInit /\ CollectInit /\ DownloadOff /\ num_cpus = 1
    /\ RequestInit /\ stdin = << <<"c", "\n">> >>
    /\ ConvertOff

Next ==
    \/ Load
    \/ Save
    \/ Advance
    \/ IsValid
    \/ ExchangeCode
    \/ ExchangeForLongLived
    \/ Refresh
    \/ DeserializeShort
    \/ RequestCode
    \/ Prompt({TRUE})
    \/ ReadLine({TRUE})

Spec == Init /\ [][Next]_vars

\* One call of collect_media, as Profile::media makes it.
CollectSpecInit ==
    /\ CollectInit /\ DownloadOff /\ RequestOff /\ TokenInit /\ token_file = <<>>
    /\ ConvertOff

CollectSpecNext ==
    \/ Media
    \/ Fetch(NextPageReplies)
    \/ Dequeue
    \/ \E w \in Threads : Lock(w)
    \/ \E w \in Threads : Push(w)
    \/ \E w \in Threads : Finish(w)
    \/ Join

CollectSpec == CollectSpecInit /\ [][CollectSpecNext]_vars

\* The threads of the pool and the caller are scheduled by the operating
\* system: none of them waits forever while it can take a step.
FairCollectSpec ==
    /\ CollectSpec
    /\ WF_vars(Dequeue)
    /\ \A w \in 1..MaxCpus :
          /\ WF_vars(w \in Threads /\ Lock(w))
          /\ WF_vars(w \in Threads /\ Push(w))
          /\ WF_vars(w \in Threads /\ Finish(w))
    /\ WF_vars(Join)

\* One call of request_code on any input.
RequestSpecInit ==
    /\ TokenInit /\ token_file = <<>>
    /\ CollectInit /\ num_cpus = 1
    /\ DownloadOff
    /\ RequestInit
    /\ ConvertOff

RequestSpecNext ==
    \/ RequestCode
    \/ Prompt(BOOLEAN)
    \/ ReadLine(BOOLEAN)

RequestSpec == RequestSpecInit /\ [][RequestSpecNext]_vars

\* The thread that called request_code is scheduled: it goes on while it can.
FairRequestSpec ==
    /\ RequestSpec
    /\ WF_vars(RequestCode)
    /\ WF_vars(Prompt(BOOLEAN))
    /\ WF_vars(ReadLine(BOOLEAN))

\* One conversion of one record of the server.
ConvertSpecInit ==
    /\ TokenInit /\ token_file = <<>>
    /\ CollectInit /\ num_cpus = 1
    /\ DownloadOff
    /\ RequestOff
    /\ ConvertInit

ConvertSpecNext ==
    \/ IntoMedia
    \/ IntoInfo

ConvertSpec == ConvertSpecInit /\ [][ConvertSpecNext]_vars

\* The names of two items that go to one directory.
FilenameSpecInit ==
    /\ TokenInit /\ token_file = <<>>
    /\ CollectInit /\ num_cpus = 1
    /\ DownloadOff
    /\ RequestOff
    /\ FilenameInit

FilenameSpec == FilenameSpecInit /\ [][Filenames]_vars

\* One call of Profile::album, with an item of any type.
AlbumSpecNext ==
    \/ Album
    \/ Fetch(NextPageReplies)
    \/ Dequeue
    \/ \E w \in Threads : Lock(w)
    \/ \E w \in Threads : Push(w)
    \/ \E w \in Threads : Finish(w)
    \/ Join

AlbumSpec == CollectSpecInit /\ [][AlbumSpecNext]_vars

\* One run of download_all.  The listing and every album are one page of
\* well-formed records or a failed request; the token file is whatever a
\* former run left.
ListingReplies ==
    [delivered : {TRUE}, status : {404}, body : {NoPage}] \cup
    [delivered : {TRUE}, status : {200},
     body : [json : {TRUE},
             data : IF endpoint = <<>>
                    THEN GoodPages(endpoint, 1, MaxItems, {"IMAGE", "CAROUSEL_ALBUM"})
                    ELSE GoodPages(endpoint, 1, MaxChildren, {"IMAGE"}),
             next : {<<>>}]]

RefreshReplies ==
    {[delivered |-> TRUE, status |-> 200, latency |-> 0,
      body |-> [json |-> TRUE, access_token |-> "T1", user_id |-> 7,
                expires_in |-> 3600]],
     [delivered |-> TRUE, status |-> 404, latency |-> 0, body |-> Garbage]}

DownloadSpecInit ==
    TokenInit /\ CollectInit /\ DownloadInit /\ RequestOff /\ ConvertOff

DownloadSpecNext ==
    \/ LoadToken(RefreshReplies)
    \/ MediaReturned
    \/ Dispatch
    \/ AlbumReturned
    \/ DDequeue
    \/ \E w \in Threads : DRun(w)
    \/ DJoin
    \/ Fetch(ListingReplies)
    \/ Dequeue
    \/ \E w \in Threads : Lock(w)
    \/ \E w \in Threads : Push(w)
    \/ \E w \in Threads : Finish(w)
    \/ Join

DownloadSpec == DownloadSpecInit /\ [][DownloadSpecNext]_vars

\* ------------------------------------------------------------------ claims
\* C1: is_valid() is true exactly when the evaluation time is strictly before
\* the token's expiration; at the expiration instant itself it is false.
C1_IsValidStrict ==
    last.op = "is_valid" =>
        /\ last.ok <=> (last.before[1].expiration_date - last.at > 0)
        /\ (last.at = last.before[1].expiration_date) => ~last.ok

C1_Witness ==
    /\ last.op = "is_valid"
    /\ last.at = last.before[1].expiration_date
    /\ ~last.ok

\* C4: after refresh returns Ok both access_token and expiration_date hold the
\* values of the reply; after it returns Err both hold the values they had
\* before the call.
C4_RefreshAtomic ==
    last.op = "refresh" =>
        LET old == last.before[1]
            new == long_lived_token[1]
        IN  IF last.ok
            THEN /\ new.access_token = last.reply.body.access_token
                 /\ new.expiration_date =
                        last.at + last.reply.latency + Seconds(last.reply.body.expires_in)
            ELSE /\ new.access_token = old.access_token
                 /\ new.expiration_date = old.expiration_date

C4_Witness ==
    /\ last.op = "refresh"
    /\ ~last.ok
    /\ last.err = "decode"
    /\ last.reply.status = 200
    /\ long_lived_token = last.before

\* C5: refresh on a token that is not valid (now >= expiration) fails with the
\* expired-token error and sends no request.
C5_RefreshExpired ==
    (last.op = "refresh" /\ last.at >= last.before[1].expiration_date) =>
        /\ ~last.ok
        /\ last.err = "token has been expired"
        /\ last.sent = 0

C5_Witness ==
    /\ last.op = "refresh"
    /\ last.at >= last.before[1].expiration_date
    /\ last.sent = 0

\* C6: LongLivedToken::new with a short-lived token that is not valid fails
\* with the expired-token error, sends no request and returns no token.
C6_ExchangeExpired ==
    (last.op = "exchangeForLongLived" /\ last.at >= last.before[1].expiration_date) =>
        /\ ~last.ok
        /\ last.err = "short-lived token has been expired"
        /\ last.sent = 0
        /\ last.token = <<>>

C6_Witness ==
    /\ last.op = "exchangeForLongLived"
    /\ last.at >= last.before[1].expiration_date
    /\ last.token = <<>>

\* The evaluation times at which the validity of two tokens is compared: the
\* present and every instant within a second of the expiration.
EvalTimes(token) ==
    {now} \cup {t \in (token.expiration_date - TicksPerSecond)..
                       (token.expiration_date + TicksPerSecond) : t >= 0}

\* C13: when the token file holds the serialized form of the token the caller
\* holds, deserializing it gives a token with the same access_token and
\* user_id that is valid at exactly the times the original is, also when the
\* expiration is no whole number of seconds.
C13_RoundTrip ==
    (long_lived_token # <<>> /\ token_file = <<serialize(long_lived_token[1])>>) =>
        LET original == long_lived_token[1]
            restored == deserialize(token_file[1])
        IN  /\ restored.access_token = original.access_token
            /\ restored.user_id = original.user_id
            /\ \A t \in EvalTimes(original) :
                  is_valid(restored, t) <=> is_valid(original, t)

\* C14: a short-lived token comes into being only through a successful
\* authorization-code exchange, every long-lived exchange consumes the
\* short-lived token it is given, and a long-lived token changes only
\* through an exchange, a refresh or the loading of a stored one.
C14_Lifecycle ==
    [][/\ (short_lived_token' # <<>> /\ short_lived_token' # short_lived_token) =>
              (last'.op = "exchangeCode" /\ last'.ok /\ last'.token = short_lived_token')
       /\ (last' # last /\ last'.op = "exchangeForLongLived") =>
              (short_lived_token # <<>> /\ short_lived_token' = <<>>)
       /\ long_lived_token' # long_lived_token =>
              last'.op \in {"exchangeForLongLived", "refresh", "load"}]_vars

\* The last call was given a token that was valid when the call was made.
PreconditionHeld == last.before # <<>> /\ is_valid(last.before[1], last.at)

\* C15: a token operation whose precondition holds sends exactly one request
\* in a call, whether the call succeeds or fails (the exchange of the code,
\* which has no precondition; the long-lived exchange and the refresh of a
\* valid token), and request_code sends none.
C15_OneRequest ==
    /\ last.op = "exchangeCode" => last.sent = 1
    /\ (last.op \in {"exchangeForLongLived", "refresh"} /\ PreconditionHeld) =>
            last.sent = 1
    /\ last.op = "request_code" => last.sent = 0

\* The code was read, then an exchange of it failed after its one request.
C15_Witness ==
    /\ rpc = "returned" /\ rret.st = "ok"
    /\ last.op = "exchangeCode" /\ ~last.ok /\ last.sent = 1

\* The time at which the reply of the last call was received and the token
\* made.
IssueTime == last.at + last.reply.latency

\* C16: a token that was just issued expires at its issue time plus its
\* lifetime, one hour for a short-lived token and the server's expires_in
\* seconds for a long-lived token, after an exchange and after a refresh;
\* it is valid at its issue time when that lifetime is positive.
C16_Expiration ==
    /\ (last.op = "exchangeCode" /\ last.ok) =>
          /\ last.token[1].expiration_date = IssueTime + Hours(1)
          /\ is_valid(last.token[1], IssueTime)
    /\ (last.op \in {"exchangeForLongLived", "refresh"} /\ last.ok) =>
          /\ last.token[1].expiration_date =
                 IssueTime + Seconds(last.reply.body.expires_in)
          /\ last.reply.body.expires_in > 0 => is_valid(last.token[1], IssueTime)

\* A refresh that took time succeeded with a positive lifetime, on a token
\* that had another expiration.
C16_Witness ==
    /\ last.op = "refresh" /\ last.ok
    /\ last.reply.latency > 0 /\ last.reply.body.expires_in > 0
    /\ last.before[1].expiration_date # last.token[1].expiration_date

\* C17: an exchange whose request fails in transport or is answered with a
\* status outside 200..299 returns an error and makes no token: the caller
\* holds no more tokens than before.
C17_NoTokenOnFailure ==
    [][(/\ last' # last
        /\ last'.op \in {"exchangeCode", "exchangeForLongLived"}
        /\ last'.sent = 1
        /\ (~last'.reply.delivered \/ last'.reply.status \notin 200..299)) =>
            /\ ~last'.ok
            /\ last'.token = <<>>
            /\ long_lived_token' = long_lived_token
            /\ last'.op = "exchangeCode" => short_lived_token' = short_lived_token]_vars

\* C18: a call of request_code that has started returns in the end, with the
\* code or with an error, whatever the standard input holds.
C18_Terminates == (rpc = "prompt") ~> (rpc = "returned")

\* The items of the pages in the order the pages were received.
RECURSIVE InPageOrder(_)
InPageOrder(ps) ==
    IF ps = <<>> THEN <<>>
    ELSE InPageOrder(SubSeq(ps, 1, Len(ps) - 1)) \o
         [j \in DOMAIN ps[Len(ps)] |-> Media_from(ps[Len(ps)][j]).media]

RECURSIVE CountRecords(_)
CountRecords(ps) ==
    IF ps = <<>> THEN 0
    ELSE CountRecords(SubSeq(ps, 1, Len(ps) - 1)) + Len(ps[Len(ps)])

\* A record with a field the client cannot parse: an id that is no number,
\* a type tag that is none of the three, a timestamp or a URL out of format.
Malformed(record) ==
    \/ record.id = <<>>
    \/ \E i \in DOMAIN record.id : \A d \in DOMAIN DigitChars : DigitChars[d] # record.id[i]
    \/ record.media_type \notin {"IMAGE", "VIDEO", "CAROUSEL_ALBUM"}
    \/ record.timestamp = BadTimestamp
    \/ record.media_url = BadUrl
    \/ record.permalink = <<BadUrl>>
    \/ record.thumbnail_url = <<BadUrl>>

\* The last page request got no page: no reply, an error status, a body that
\* is no page, or a next cursor that is no URL.
FetchFailed ==
    /\ page_reply # <<>>
    /\ \/ ~page_reply[1].delivered
       \/ page_reply[1].status \in 400..599
       \/ ~page_reply[1].body.json
       \/ page_reply[1].body.next = <<0>>

\* The last page request got a page without a next cursor.
LastPageReceived ==
    /\ page_reply # <<>>
    /\ page_reply[1].delivered
    /\ page_reply[1].status \notin 400..599
    /\ page_reply[1].body.json
    /\ page_reply[1].body.next = <<>>

\* The pages requested form a chain: no URL was requested twice.
Chain == \A i, j \in DOMAIN fetched : i # j => fetched[i] # fetched[j]

\* C2: for a finite chain of pages the list collect_media returns is the
\* concatenation of the pages' items in the order the pages were traversed,
\* whatever the schedule of the pool's threads.
C2_PageOrder ==
    (pc = "returned" /\ ret.st = "ok" /\ Chain) => ret.val = InPageOrder(pages)

C7_OneOutcomeEach ==
    dpc = "returned" /\ listing # <<>> =>
        /\ dret = Ok(<<>>)
        /\ \A i \in DOMAIN listing :
              listing[i].media_type # "CAROUSEL_ALBUM" =>
                  Cardinality({j \in DOMAIN submitted :
                                  submitted[j] = Job(listing[i], OutputDir, <<>>)}) = 1
        /\ \A j \in DOMAIN submitted :
              /\ Len(outcomes[j]) = 1
              /\ ~outcomes[j][1].ok => outcomes[j][1].fate # Smooth

\* Two items were dispatched; the first got a 404 and failed, the second
\* was downloaded.
C7_Witness ==
    /\ dpc = "returned"
    /\ dret = Ok(<<>>)
    /\ Len(submitted) = 2
    /\ outcomes[1] # <<>> /\ outcomes[1][1].err = "status"
    /\ outcomes[2] # <<>> /\ outcomes[2][1].ok

\* C8: when download_all has returned, no job it submitted is queued or
\* running: every one of them, top-level or album child, has ended.
C8_JoinBarrier ==
    dpc = "returned" =>
        /\ dqueue = <<>>
        /\ \A w \in Threads : dworkers[w] = 0
        /\ \A j \in DOMAIN submitted : outcomes[j] # <<>>

\* download_all returned after a top-level item and an album child were
\* submitted.
C8_Witness ==
    /\ dpc = "returned"
    /\ \E j \in DOMAIN submitted : submitted[j].parent = <<>>
    /\ \E j \in DOMAIN submitted : submitted[j].parent # <<>>
    /\ \A j \in DOMAIN submitted : outcomes[j] # <<>>

\* The download jobs that have been started and have not ended.
InFlight ==
    {j \in DOMAIN submitted :
        /\ outcomes[j] = <<>>
        /\ \A k \in DOMAIN dqueue : dqueue[k] # j}

\* The page-parsing jobs that a thread of collect_media's pool is running.
Parsing == {w \in Threads : workers[w] # Idle}

\* C19: page-parsing jobs and file-download jobs share one pool of
\* num_cpus threads, so that the jobs of both kinds running at one time are
\* never more than num_cpus, also while an album is expanded during a
\* download run.
C19_SharedPool == Cardinality(Parsing) + Cardinality(InFlight) <= num_cpus

\* C20: during download_all the downloads in flight are never more than the
\* threads of the pool, however many jobs have been submitted.
C20_BoundedDownloads ==
    /\ Cardinality(InFlight) <= num_cpus
    /\ InFlight = {dworkers[w] : w \in Threads} \ {0}

\* Every thread of the pool is downloading while a job waits in the channel,
\* with a top-level item and an album child among the submitted jobs.
C20_Witness ==
    /\ Cardinality(InFlight) = num_cpus
    /\ dqueue # <<>>
    /\ Len(submitted) > num_cpus
    /\ \E j \in DOMAIN submitted : submitted[j].parent = <<>>
    /\ \E j \in DOMAIN submitted : submitted[j].parent # <<>>

\* C21: nothing is retried.  In one run of download_all every job is
\* attempted at most once and no item has two jobs; the loading of the
\* token sends at most one refresh request, also when the refresh fails;
\* and after a page request that failed the traversal requests nothing more.
C21_NoRetry ==
    /\ [](/\ \A j \in DOMAIN submitted : Len(outcomes[j]) <= 1
          /\ \A i, j \in DOMAIN submitted :
                submitted[i].media = submitted[j].media => i = j
          /\ last.sent <= 1)
    /\ [][(FetchFailed /\ fetched' # fetched) =>
             (fetched' = <<>> /\ endpoint' # endpoint)]_vars

\* download_all returned after a refresh that failed, a traversal of an
\* album that failed and a download that failed, each tried once.
C21_Witness ==
    /\ dpc = "returned"
    /\ last.op = "load" /\ last.sent = 1 /\ last.reply.status = 404
    /\ FetchFailed /\ endpoint # <<>>
    /\ \E j \in DOMAIN submitted : Len(outcomes[j]) = 1 /\ ~outcomes[j][1].ok

\* C22: no download job is submitted or started before the top-level
\* collection has received its last page and all of its parse jobs have
\* ended; the caller goes on with the whole list; and when the collection
\* fails nothing is downloaded.
C22_Materialized ==
    /\ [](/\ dpc \in {"start", "media"} =>
                /\ submitted = <<>>
                /\ \A w \in Threads : dworkers[w] = 0
                /\ files = {} /\ dirs = {}
          /\ dret = Err("Couldn't gather the information") =>
                (submitted = <<>> /\ files = {} /\ dirs = {}))
    /\ [][(dpc = "media" /\ dpc' = "dispatch") =>
             /\ LastPageReceived
             /\ joined
             /\ ret.st = "ok"
             /\ listing' = ret.val
             /\ Len(listing') = CountRecords(pages)]_vars

\* A download is running after a listing of two items was returned.
C22_Witness ==
    /\ dpc = "dispatch"
    /\ Len(listing) >= 2
    /\ \E w \in Threads : dworkers[w] # 0

\* The calls of download_album made with item m.
Expansions(m) == Cardinality({k \in DOMAIN expanded : expanded[k] = m})

\* The file-download jobs made of item m itself.
JobsOf(m) == Cardinality({j \in DOMAIN submitted : submitted[j].media = m})

\* C23: every item of the listing is dispatched exactly once.  When
\* download_all returns, an item that is no album has exactly one job and was
\* never expanded; an album was expanded exactly once with include_albums and
\* never without it; and at no time is an album itself a download job.
C23_DispatchedOnce ==
    /\ \A j \in DOMAIN submitted : submitted[j].media.media_type # "CAROUSEL_ALBUM"
    /\ \A k \in DOMAIN expanded :
          /\ include_albums
          /\ expanded[k].media_type = "CAROUSEL_ALBUM"
          /\ Expansions(expanded[k]) = 1
    /\ (dpc = "returned" /\ dret.st = "ok") =>
          \A i \in DOMAIN listing :
             IF listing[i].media_type = "CAROUSEL_ALBUM"
             THEN /\ Expansions(listing[i]) = (IF include_albums THEN 1 ELSE 0)
                  /\ JobsOf(listing[i]) = 0
             ELSE /\ Expansions(listing[i]) = 0
                  /\ JobsOf(listing[i]) = 1

\* download_all returned after a listing of an image and an album, the album
\* expanded and its child submitted.
C23_Witness ==
    /\ dpc = "returned" /\ dret.st = "ok"
    /\ include_albums
    /\ Len(expanded) = 1
    /\ \E i \in DOMAIN listing : listing[i].media_type = "IMAGE"
    /\ \E j \in DOMAIN submitted : submitted[j].parent = <<expanded[1].id>>

\* The fields Media::from parses before it looks at the type tag.
ParsedBeforeTag(body) == parse_u64(body.id).ok

\* The fields Media::from parses after it has looked at the type tag.
ParsedAfterTag(body) ==
    /\ parse_timestamp(body.timestamp).ok
    /\ parse_url(body.media_url).ok
    /\ parse_opt(body.permalink).ok
    /\ parse_opt(body.thumbnail_url).ok

\* C24: a conversion rejects an unknown tag, it never defaults it.
\* Media::from succeeds with the given type for IMAGE, VIDEO and
\* CAROUSEL_ALBUM on a record whose other fields parse, and fails for any
\* other tag, with "invalid media type" when the id before it parses;
\* Info::from succeeds with the given type for BUSINESS, MEDIA_CREATOR and
\* PERSONAL and fails with "invalid account type" for any other tag.
C24_UnknownTags ==
    converted # <<>> =>
        LET r == converted[1]
            body == given.body
        IN  IF given.kind = "media"
            THEN /\ (body.media_type \in {"IMAGE", "VIDEO", "CAROUSEL_ALBUM"}
                        /\ ParsedBeforeTag(body) /\ ParsedAfterTag(body)) =>
                       (r.ok /\ r.media.media_type = body.media_type)
                 /\ body.media_type \notin {"IMAGE", "VIDEO", "CAROUSEL_ALBUM"} =>
                       /\ ~r.ok
                       /\ ParsedBeforeTag(body) => r.err = "invalid media type"
            ELSE /\ body.account_type \in {"BUSINESS", "MEDIA_CREATOR", "PERSONAL"} =>
                       (r.ok /\ r.info.account_type = body.account_type)
                 /\ body.account_type \notin {"BUSINESS", "MEDIA_CREATOR", "PERSONAL"} =>
                       (~r.ok /\ r.err = "invalid account type")

\* A media record whose only defect is an unknown tag was refused.
C24_Witness ==
    /\ converted # <<>>
    /\ given.kind = "media"
    /\ given.body.media_type = "UNKNOWN"
    /\ ParsedBeforeTag(given.body) /\ ParsedAfterTag(given.body)
    /\ converted[1].err = "invalid media type"

\* C25: the pages are requested one after the other by the thread that
\* called collect_media.  A step requests one page; when it does, every
\* earlier request has been answered and its page decoded and handed to the
\* pool, and the URL requested is the next cursor of the reply before it.
\* The parse jobs of the earlier pages need not have ended.
C25_SequentialFetch ==
    [][(fetched' # fetched /\ fetched' # <<>>) =>
          /\ pc = "loop"
          /\ fetched' = Append(fetched, url[1])
          /\ Len(pages) = Len(fetched)
          /\ fetched # <<>> =>
                (page_reply # <<>> /\ page_reply[1].body.next = url)]_vars

\* The second page has been requested while a thread is still parsing the
\* first.
C25_Witness ==
    /\ Len(fetched) = 2
    /\ \E w \in Threads : workers[w].st # "idle" /\ workers[w].job = 1

\* The time the token stored in the file has left when load is called.
Remaining == deserialize(token_file[1]).expiration_date - now

\* C26: token::load on a stored token that has expired returns an error and
\* does not call refresh; on a valid token with less than 7 days left it
\* calls refresh exactly once; on a valid token with 7 days or more left it
\* does not call refresh, sends nothing and returns the stored token.
C26_RefreshNearExpiry ==
    [][(last' # last /\ last'.op = "load" /\ token_file # <<>> /\ token_file[1].json) =>
          /\ Remaining <= 0 =>
                (~last'.ok /\ last'.refreshes = 0 /\ last'.sent = 0)
          /\ (0 < Remaining /\ Remaining < Days(7)) =>
                (last'.ok /\ last'.refreshes = 1)
          /\ Remaining >= Days(7) =>
                /\ last'.ok /\ last'.refreshes = 0 /\ last'.sent = 0
                /\ last'.token = <<deserialize(token_file[1])>>]_vars

\* load was called on a valid stored token with less than 7 days left, and
\* its one refresh succeeded.
C26_Witness ==
    /\ last.op = "load"
    /\ last.refreshes = 1
    /\ last.sent = 1
    /\ last.token # <<>> /\ last.token[1].access_token # "T0"

\* C27: a refresh that fails inside token::load is not fatal.  load returns
\* Ok with the stored token, its access_token and expiration unchanged, and
\* leaves the token file as it was; load rewrites the file only after a
\* refresh that succeeded.
C27_FailedRefreshKeepsToken ==
    [][(last' # last /\ last'.op = "load") =>
          /\ (last'.refreshes = 1 /\ HttpJson(last'.reply) # "ok") =>
                /\ last'.ok
                /\ last'.token = <<deserialize(token_file[1])>>
                /\ long_lived_token' = last'.token
                /\ token_file' = token_file
          /\ token_file' # token_file =>
                (last'.refreshes = 1 /\ HttpJson(last'.reply) = "ok")]_vars

\* load returned the stored token after its refresh got a 404.
C27_Witness ==
    /\ last.op = "load"
    /\ last.refreshes = 1
    /\ last.reply.delivered /\ last.reply.status = 404
    /\ last.ok
    /\ last.token # <<>> /\ last.token[1].access_token = "T0"
    /\ token_file # <<>> /\ token_file[1].access_token = "T0"

\* The number of times x occurs in the sequence s.
Occurrences(s, x) == Cardinality({i \in DOMAIN s : s[i] = x})

\* C28: a list collect_media returns holds every item of every page it
\* fetched exactly as often as the pages do: its length is the sum of the
\* page sizes, no page is lost or pushed twice, and no parse job is queued
\* or running when it is returned.
C28_Complete ==
    (pc = "returned" /\ ret.st = "ok") =>
        LET sent == InPageOrder(pages) IN
        /\ Len(pages) = Len(fetched)
        /\ Len(ret.val) = CountRecords(pages)
        /\ \A i \in DOMAIN sent :
              Occurrences(ret.val, sent[i]) = Occurrences(sent, sent[i])
        /\ \A i \in DOMAIN ret.val : Occurrences(sent, ret.val[i]) > 0
        /\ queue = <<>>
        /\ \A w \in Threads : workers[w] = Idle

\* Two pages, of one item and of two, were fetched and parsed on two threads
\* and the three items returned.
C28_Witness ==
    /\ pc = "returned" /\ ret.st = "ok"
    /\ num_cpus = 2
    /\ Len(pages) = 2
    /\ Len(pages[1]) = 1 /\ Len(pages[2]) = 2
    /\ Len(ret.val) = 3

\* C29: the user_id does not change along the lifecycle of a token.  The
\* long-lived token an exchange returns has the user_id of the short-lived
\* token given to it, and after a refresh, successful or not, the token has
\* the user_id it had before.
C29_UserIdKept ==
    /\ (last.op = "exchangeForLongLived" /\ last.ok) =>
            last.token[1].user_id = last.before[1].user_id
    /\ last.op = "refresh" =>
            /\ last.token[1].user_id = last.before[1].user_id
            /\ long_lived_token[1].user_id = last.before[1].user_id

\* A short-lived token of one user was exchanged with a reply that names
\* another user.
C29_Witness ==
    /\ last.op = "exchangeForLongLived" /\ last.ok
    /\ last.reply.body.user_id # last.before[1].user_id
    /\ long_lived_token # <<>>
    /\ long_lived_token[1].user_id = last.before[1].user_id

\* The album download_album is expanding could not be expanded: its
\* children could not be collected or its directory was not made.
ExpansionFailed == ret.st = "err" \/ filename(listing[idx]) \notin dirs'

\* C30: an album that cannot be expanded is left alone and the run goes on.
\* When download_album returns after a failure nothing was submitted and no
\* directory made, otherwise one job per child was submitted; in either case
\* the for loop goes to the next item.  Jobs and files in an album's
\* directory exist only if the directory was made.  When download_all
\* returns it returns Ok, every album was expanded and every other item has
\* a job that ended.
C30_AlbumIsolated ==
    /\ [][(dpc = "album" /\ dpc' # dpc) =>
             /\ dpc' = "dispatch"
             /\ idx' = idx + 1
             /\ dret' = NoReturn
             /\ IF ExpansionFailed
                THEN /\ submitted' = submitted
                     /\ dqueue' = dqueue
                     /\ dirs' = dirs
                ELSE /\ Len(submitted') = Len(submitted) + Len(ret.val)
                     /\ \A j \in DOMAIN ret.val :
                           submitted'[Len(submitted) + j] =
                               Job(ret.val[j], filename(listing[idx]), <<listing[idx].id>>)]_vars
    /\ [](/\ \A j \in DOMAIN submitted :
                submitted[j].parent # <<>> => submitted[j].dir \in dirs
          /\ \A f \in files : f[1] # OutputDir => f[1] \in dirs)
    /\ []((dpc = "returned" /\ listing # <<>>) =>
             /\ dret = Ok(<<>>)
             /\ \A i \in DOMAIN listing :
                   IF listing[i].media_type = "CAROUSEL_ALBUM"
                   THEN include_albums => Expansions(listing[i]) = 1
                   ELSE \E j \in DOMAIN submitted :
                           submitted[j].media = listing[i] /\ outcomes[j] # <<>>)

\* download_all returned Ok after two albums: the first could not be
\* expanded, the child of the second was downloaded.
C30_Witness ==
    /\ dpc = "returned" /\ dret = Ok(<<>>)
    /\ Len(expanded) = 2
    /\ dirs = {filename(expanded[2])}
    /\ \E j \in DOMAIN submitted :
          /\ submitted[j].parent = <<expanded[2].id>>
          /\ outcomes[j] # <<>> /\ outcomes[j][1].ok

\* The path download_file writes the item of job j to.
PathOf(j) == filepath(submitted[j].media, submitted[j].dir)

\* C31: download_file creates the file before it sends the request.  When
\* a job ends, it has sent a request only if its file was created, a job
\* whose request failed in transport or got an error status leaves its file
\* behind, and a job whose file could not be created has sent nothing and
\* leaves the files as they were.
C31_FileBeforeRequest ==
    [][\A j \in DOMAIN submitted :
          (outcomes[j] = <<>> /\ outcomes'[j] # <<>>) =>
              LET o == outcomes'[j][1]
                  path == PathOf(j)
                  r == download_file(path, o.fate)
              IN  /\ r.sent = 1 => (o.fate.create /\ path \in files')
                  /\ (~o.ok /\ o.err \in {"transport", "status"}) => path \in files'
                  /\ ~o.fate.create => (~o.ok /\ r.sent = 0 /\ files' = files)]_vars

\* download_all returned; a download that got a 404 failed and its file is
\* there.
C31_Witness ==
    /\ dpc = "returned"
    /\ \E j \in DOMAIN submitted :
          /\ outcomes[j] # <<>>
          /\ ~outcomes[j][1].ok /\ outcomes[j][1].err = "status"
          /\ PathOf(j) \in files

\* C33: when pool.join() has returned every parse job has dropped its clone
\* of the Arc, so collect_media is the only owner of the list: it never
\* returns "failed to consume result", and after the join it returns an error
\* exactly when a parse job that panicked has poisoned the mutex.
C33_SoleOwner ==
    /\ [](ret.err # "failed to consume result")
    /\ [][(pc = "join" /\ pc' = "returned") =>
             /\ strong_count = 1
             /\ ret'.st = "err" <=> poisoned
             /\ poisoned => ret' = Err("PoisonError")
             /\ ~poisoned => ret' = Ok(media)]_vars

\* collect_media returned the poison error after the join: two pages were
\* handed to the pool and a record of one did not convert.
C33_Witness ==
    /\ pc = "returned"
    /\ LastPageReceived
    /\ Len(pages) = 2
    /\ poisoned
    /\ strong_count = 1
    /\ ret = Err("PoisonError")

\* C32: two items with distinct ids that go to the same directory get
\* distinct file names, whatever their user names, publish dates and URLs
\* are, so no two jobs create or write the same file.
C32_DistinctNames ==
    (converted # <<>> /\ given.body.a.id # given.body.b.id) =>
        converted[1].a # converted[1].b

\* Two items of one user and one publish date that differ only in the id,
\* where the name of the other user holds the first id, got two names.
C32_Witness ==
    /\ converted # <<>>
    /\ given.body.a.id = 2 /\ given.body.a.username = "a_1"
    /\ given.body.b.id = 12 /\ given.body.b.username = "a"
    /\ filename_NoId(given.body.a) # filename_NoId(given.body.b)
    /\ given.body.a.timestamp = given.body.b.timestamp
    /\ converted[1].a # converted[1].b

\* The orders in which n jobs can take the mutex.
Orders(n) == {p \in [1..n -> 1..n] : \A i, j \in 1..n : i # j => p[i] # p[j]}

\* C11: at most one thread of the pool is inside the locked section at any
\* time, and in the list collect_media returns the items of each page form
\* one block, in the order the server sent them: the list is the pages'
\* items concatenated in some order of the pages.
C11_Serialized ==
    /\ Cardinality({w \in Threads : workers[w].st = "locked"}) <= 1
    /\ (pc = "returned" /\ ret.st = "ok") =>
           \E p \in Orders(Len(pages)) :
              ret.val = InPageOrder([i \in DOMAIN pages |-> pages[p[i]]])

\* Two pages of two items each were parsed by two threads, the second page
\* first.
C11_Witness ==
    /\ pc = "returned"
    /\ ret.st = "ok"
    /\ num_cpus = 2
    /\ Len(pages) = 2
    /\ Len(pages[1]) = 2 /\ Len(pages[2]) = 2
    /\ ret.val = InPageOrder(<<pages[2], pages[1]>>)

\* C12: Profile::album with an item that is no album returns the error
\* "parent must be an album" and requests nothing.
C12_NotAnAlbum ==
    (parent # <<>> /\ parent[1].media_type # "CAROUSEL_ALBUM") =>
        /\ pc = "returned"
        /\ ret = Err("parent must be an album")
        /\ fetched = <<>>

C12_Witness ==
    /\ parent # <<>>
    /\ parent[1].media_type = "VIDEO"
    /\ ret.st = "err"
    /\ fetched = <<>>

\* C9: no URL is requested twice in one traversal, whatever next cursors the
\* server returns.
C9_NoRevisit ==
    \A i \in DOMAIN fetched : \A j \in 1..(i - 1) : fetched[j] # fetched[i]

\* C10: after the first page without a next cursor no further page is
\* requested and collect_media returns; a single empty page without a cursor
\* gives Ok of the empty list.
C10_StopsAtLastPage ==
    /\ [][LastPageReceived => fetched' = fetched]_vars
    /\ LastPageReceived ~> (pc = "returned")
    /\ []((pc = "returned" /\ LastPageReceived /\ pages = << <<>> >>) =>
             ret = Ok(<<>>))

C10_Witness ==
    /\ pc = "returned"
    /\ LastPageReceived
    /\ fetched = <<1>>
    /\ pages = << <<>> >>
    /\ ret = Ok(<<>>)

====
